---- MODULE Spec2Model ----
(***************************************************************************)
(* Model of include/hipSYCL/runtime/util.hpp (static_array<Dim>, the       *)
(* id/range embedding helpers and the integer helpers) and of the          *)
(* capability flags of glue/hip/hip_interop.hpp.                           *)
(*                                                                         *)
(* std::size_t and std::uint64_t are 64 bits wide.  A 64-bit value is a    *)
(* little-endian sequence of NumLimbs limbs, each in 0 .. Base-1, so that  *)
(* the arithmetic is exact at the width of the program.  Sequences of any  *)
(* other length denote unbounded naturals; they are used to state what a   *)
(* result should be without the wrap-around of the machine arithmetic.     *)
(***************************************************************************)
EXTENDS Integers, Sequences, FiniteSets, TLC

\* Bounds of the model: how far the sampled operands lie from the
\* boundaries 0, 2^k and 2^64.
MaxDelta == 1
MaxComp == 0
MaxDevice == 2

\* Width in bits of std::uint64_t and std::size_t.
Width == 64

Base == 2^8
NumLimbs == Width \div 8

Max(i, j) == IF i >= j THEN i ELSE j

(***************************************************************************)
(* Unbounded naturals as limb sequences.                                   *)
(***************************************************************************)
Limb(p, i) == IF i <= Len(p) THEN p[i] ELSE 0

RECURSIVE AddFrom(_, _, _, _, _)
AddFrom(p, q, i, m, carry) ==
  IF i > m THEN <<carry>>
  ELSE LET s == Limb(p, i) + Limb(q, i) + carry
       IN  <<s % Base>> \o AddFrom(p, q, i + 1, m, s \div Base)

NAdd(p, q) == AddFrom(p, q, 1, Max(Len(p), Len(q)), 0)

RECURSIVE ColSum(_, _, _, _)
\* sum of p[i] * q[k-i+1] over the i for which both limbs exist
ColSum(p, q, k, i) ==
  IF i > Len(p) \/ i > k THEN 0
  ELSE (IF k - i + 1 <= Len(q) THEN p[i] * q[k - i + 1] ELSE 0)
       + ColSum(p, q, k, i + 1)

RECURSIVE MulFrom(_, _, _, _, _)
MulFrom(p, q, k, m, carry) ==
  IF k > m THEN <<>>
  ELSE LET s == ColSum(p, q, k, 1) + carry
       IN  <<s % Base>> \o MulFrom(p, q, k + 1, m, s \div Base)

NMul(p, q) == MulFrom(p, q, 1, Len(p) + Len(q), 0)

RECURSIVE CmpFrom(_, _, _)
\* -1, 0, 1 as p is less than, equal to, greater than q
CmpFrom(p, q, i) ==
  IF i = 0 THEN 0
  ELSE IF Limb(p, i) < Limb(q, i) THEN -1
  ELSE IF Limb(p, i) > Limb(q, i) THEN 1
  ELSE CmpFrom(p, q, i - 1)

NCmp(p, q) == CmpFrom(p, q, Max(Len(p), Len(q)))
NLeq(p, q) == NCmp(p, q) <= 0
NLt(p, q) == NCmp(p, q) < 0
NEq(p, q) == NCmp(p, q) = 0

RECURSIVE NPow(_, _)
NPow(p, e) == IF e = 0 THEN <<1>> ELSE NMul(p, NPow(p, e - 1))

(***************************************************************************)
(* 64-bit unsigned machine arithmetic.                                     *)
(***************************************************************************)
RECURSIVE LimbsFrom(_, _)
\* the limbs i, i+1, ..., NumLimbs of p
LimbsFrom(p, i) ==
  IF i > NumLimbs THEN <<>> ELSE <<Limb(p, i)>> \o LimbsFrom(p, i + 1)

\* reduction modulo 2^64: the low NumLimbs limbs
Wrap(p) == LimbsFrom(p, 1)

RECURSIVE LimbsOf(_, _)
LimbsOf(n, len) ==
  IF len = 0 THEN <<>> ELSE <<n % Base>> \o LimbsOf(n \div Base, len - 1)

\* the 64-bit value of a small non-negative literal
U64(n) == LimbsOf(n, NumLimbs)

Zero == U64(0)
One == U64(1)

\* 2^k modulo 2^64, for k in 0..Width
Pow2(k) ==
  Wrap([i \in 1..(NumLimbs + 1) |-> IF i = (k \div 8) + 1 THEN 2^(k % 8) ELSE 0])

UAdd(p, q) == Wrap(NAdd(p, q))

RECURSIVE NotFrom(_, _)
NotFrom(q, i) ==
  IF i > NumLimbs THEN <<>> ELSE <<Base - 1 - q[i]>> \o NotFrom(q, i + 1)

\* ~q
UNot(q) == NotFrom(q, 1)

UMax == UNot(Zero)

\* p - q modulo 2^64: p + ~q + 1
USub(p, q) == Wrap(NAdd(NAdd(p, UNot(q)), One))

UMul(p, q) == Wrap(NMul(p, q))

RECURSIVE ShrFrom(_, _, _, _)
\* limbs i, i+1, ... of p shifted right by ls limbs and bs < 8 bits
ShrFrom(p, ls, bs, i) ==
  IF i > NumLimbs THEN <<>>
  ELSE <<(Limb(p, i + ls) \div 2^bs) + (Limb(p, i + ls + 1) % 2^bs) * 2^(8 - bs)>>
       \o ShrFrom(p, ls, bs, i + 1)

\* p >> k for 0 <= k < Width
UShr(p, k) == ShrFrom(p, k \div 8, k % 8, 1)

RECURSIVE OrLimb(_, _)
OrLimb(m, n) ==
  IF m = 0 THEN n
  ELSE IF n = 0 THEN m
  ELSE (IF m % 2 = 1 \/ n % 2 = 1 THEN 1 ELSE 0)
       + 2 * OrLimb(m \div 2, n \div 2)

RECURSIVE OrFrom(_, _, _)
OrFrom(p, q, i) ==
  IF i > NumLimbs THEN <<>> ELSE <<OrLimb(p[i], q[i])>> \o OrFrom(p, q, i + 1)

\* p | q
UOr(p, q) == OrFrom(p, q, 1)

\* the largest digit d (built from the bits bit, bit/2, ..., 1 on top of d)
\* with d * q <= r
RECURSIVE Digit(_, _, _, _)
Digit(r, q, d, bit) ==
  IF bit = 0 THEN d
  ELSE IF NLeq(NMul(<<d + bit>>, q), r)
       THEN Digit(r, q, d + bit, bit \div 2)
       ELSE Digit(r, q, d, bit \div 2)

\* r - s for naturals s <= r, in Len(r) limbs
RECURSIVE SubFrom(_, _, _, _)
SubFrom(r, s, i, borrow) ==
  IF i > Len(r) THEN <<>>
  ELSE LET t == r[i] - Limb(s, i) - borrow
       IN  IF t < 0 THEN <<t + Base>> \o SubFrom(r, s, i + 1, 1)
           ELSE <<t>> \o SubFrom(r, s, i + 1, 0)

\* long division, most significant limb first: quotient limbs of p / q
\* for the limbs i, i-1, ..., 1 of p, given the running remainder r
RECURSIVE DivFrom(_, _, _, _)
DivFrom(p, q, i, r) ==
  IF i = 0 THEN <<>>
  ELSE LET r1 == <<p[i]>> \o r
           d == Digit(r1, q, 0, Base \div 2)
           r2 == SubSeq(SubFrom(r1, NMul(<<d>>, q), 1, 0), 1, NumLimbs)
       IN  DivFrom(p, q, i - 1, r2) \o <<d>>

\* p / q (unsigned, rounding down), for q # 0
UDiv(p, q) == DivFrom(p, q, NumLimbs, Zero)

(***************************************************************************)
(* static_array<Dim>: a sequence of Dim 64-bit components.                 *)
(***************************************************************************)
Dims == 1..3

\* the loop stopping one component early: the last one is never set
static_array_skip_last(D, dim0) == [i \in 1..D |-> IF i < D THEN dim0 ELSE Zero]

\* static_array(std::size_t dim0)
static_array(D, dim0) == [i \in 1..D |-> dim0]

\* static_array(dim0, dim1)
static_array2(dim0, dim1) == <<dim0, dim1>>

\* static_array(dim0, dim1, dim2)
static_array3(dim0, dim1, dim2) == <<dim0, dim1, dim2>>

\* operator==: std::array equality, component by component
operator_eq(p, q) ==
  /\ Len(p) = Len(q)
  /\ \A i \in 1..Len(p) : p[i] = q[i]

operator_ne(p, q) == ~operator_eq(p, q)

\* operator+
operator_plus(p, q) == [i \in 1..Len(p) |-> UAdd(p[i], q[i])]

\* the operands taken in the wrong order
operator_minus_swapped(p, q) == [i \in 1..Len(p) |-> USub(q[i], p[i])]

\* operator-
operator_minus(p, q) == [i \in 1..Len(p) |-> USub(p[i], q[i])]

RECURSIVE sizeFrom(_, _, _)
\* the loop of size(): s *= _data[i] for i, i+1, ..., Dim-1
sizeFrom(p, i, s) ==
  IF i > Len(p) THEN s ELSE sizeFrom(p, i + 1, UMul(s, p[i]))

size(p) == sizeFrom(p, 1, One)

(***************************************************************************)
(* Embedding in, and extraction from, three dimensions.  C++ index k is    *)
(* position k+1 of the sequence.                                           *)
(***************************************************************************)
\* padding with 1, as embed_in_range3 does
embed_in_id3_one_pad(D, idx) ==
  IF D = 1 THEN <<One, One, idx[1]>>
  ELSE IF D = 2 THEN <<One, idx[1], idx[2]>>
  ELSE idx

embed_in_id3(D, idx) ==
  IF D = 1 THEN static_array3(Zero, Zero, idx[1])
  ELSE IF D = 2 THEN static_array3(Zero, idx[1], idx[2])
  ELSE idx

\* padding with 0, as embed_in_id3 does
embed_in_range3_zero_pad(D, r) ==
  IF D = 1 THEN <<Zero, Zero, r[1]>>
  ELSE IF D = 2 THEN <<Zero, r[1], r[2]>>
  ELSE r

embed_in_range3(D, r) ==
  IF D = 1 THEN static_array3(One, One, r[1])
  ELSE IF D = 2 THEN static_array3(One, r[1], r[2])
  ELSE r

\* taking the leading instead of the trailing components
extract_from_id3_leading(D, idx) ==
  IF D = 1 THEN <<idx[1]>>
  ELSE IF D = 2 THEN <<idx[1], idx[2]>>
  ELSE idx

extract_from_id3(D, idx) ==
  IF D = 1 THEN static_array(1, idx[3])
  ELSE IF D = 2 THEN static_array2(idx[2], idx[3])
  ELSE idx

extract_from_range3(D, r) ==
  IF D = 1 THEN static_array(1, r[3])
  ELSE IF D = 2 THEN static_array2(r[2], r[3])
  ELSE r

(***************************************************************************)
(* Integer helpers.                                                        *)
(***************************************************************************)
\* a |= (a >> k)
Smear(p, k) == UOr(p, UShr(p, k))

\* the last smearing step, a |= (a >> 32), left out
next_power_of_2_no_shift32(p) ==
  UAdd(Smear(Smear(Smear(Smear(Smear(p, 1), 2), 4), 8), 16), One)

next_power_of_2(p) ==
  UAdd(Smear(Smear(Smear(Smear(Smear(Smear(p, 1), 2), 4), 8), 16), 32), One)

\* a passed on without the decrement
power_of_2_ceil_no_decrement(p) ==
  IF p = Zero THEN Zero ELSE next_power_of_2(p)

power_of_2_ceil(p) ==
  IF p = Zero THEN Zero ELSE next_power_of_2(USub(p, One))

ceil_division(p, q) == UDiv(USub(UAdd(p, q), One), q)

next_multiple_of(p, q) == UMul(ceil_division(p, q), q)

(***************************************************************************)
(* backend_interop<backend::hip>                                           *)
(***************************************************************************)
\* can_make_device left false, as the other can_make_* flags are
backend_interop_hip_no_make_device ==
  [ can_make_platform |-> FALSE,
    can_make_device |-> FALSE,
    can_make_context |-> FALSE,
    can_make_queue |-> FALSE,
    can_make_event |-> FALSE,
    can_make_buffer |-> FALSE,
    can_make_sampled_image |-> FALSE,
    can_make_image_sampler |-> FALSE,
    can_make_stream |-> FALSE,
    can_make_kernel |-> FALSE,
    can_make_module |-> FALSE,
    can_extract_native_platform |-> FALSE,
    can_extract_native_device |-> TRUE,
    can_extract_native_context |-> FALSE,
    can_extract_native_queue |-> FALSE,
    can_extract_native_event |-> FALSE,
    can_extract_native_buffer |-> FALSE,
    can_extract_native_sampled_image |-> FALSE,
    can_extract_native_image_sampler |-> FALSE,
    can_extract_native_stream |-> FALSE,
    can_extract_native_kernel |-> FALSE,
    can_extract_native_module |-> FALSE,
    can_extract_native_device_event |-> FALSE,
    can_extract_native_mem |-> TRUE ]

backend_interop_hip ==
  [ can_make_platform |-> FALSE,
    can_make_device |-> TRUE,
    can_make_context |-> FALSE,
    can_make_queue |-> FALSE,
    can_make_event |-> FALSE,
    can_make_buffer |-> FALSE,
    can_make_sampled_image |-> FALSE,
    can_make_image_sampler |-> FALSE,
    can_make_stream |-> FALSE,
    can_make_kernel |-> FALSE,
    can_make_module |-> FALSE,
    can_extract_native_platform |-> FALSE,
    can_extract_native_device |-> TRUE,
    can_extract_native_context |-> FALSE,
    can_extract_native_queue |-> FALSE,
    can_extract_native_event |-> FALSE,
    can_extract_native_buffer |-> FALSE,
    can_extract_native_sampled_image |-> FALSE,
    can_extract_native_image_sampler |-> FALSE,
    can_extract_native_stream |-> FALSE,
    can_extract_native_kernel |-> FALSE,
    can_extract_native_module |-> FALSE,
    can_extract_native_device_event |-> FALSE,
    can_extract_native_mem |-> TRUE ]

\* make_sycl_device(int device_id)
make_sycl_device(device_id) ==
  [ hardware_platform |-> "rocm", api_platform |-> "hip", id |-> device_id ]

\* get_native_device(const device &d)
get_native_device(d) == d.id

(***************************************************************************)
(* The callers.  A caller holds the operands of one call (fn names the     *)
(* function it is about to call), calls it, and may pass the returned      *)
(* value on to a second function.  trace lists the calls made so far.      *)
(***************************************************************************)
VARIABLES
  fn,      \* the function the caller calls first
  Dim,     \* the template parameter Dim
  a, b,    \* static_array<Dim> operands
  x, y,    \* std::uint64_t / std::size_t operands
  trace,   \* the functions called so far, in order
  v,       \* the static_array returned by the last call that returns one
  n,       \* the integer returned by the last call that returns one
  dev,     \* the sycl device made by make_sycl_device, or NoDevice
  native,  \* the native device id last extracted, or NoNative
  flag,    \* the capability flag last read, or NoFlag
  cap      \* the value that flag had

vars == <<fn, Dim, a, b, x, y, trace, v, n, dev, native, flag, cap>>

NoDevice == [ hardware_platform |-> "none", api_platform |-> "none", id |-> -1 ]
NoNative == NoDevice.id
NoFlag == "none"

\* operands near 0 and near 2^64, and the square root of 2^64
CompVals(k) ==
  {U64(j) : j \in 0..k} \cup {USub(UMax, U64(j)) : j \in 0..k} \cup {Pow2(Width \div 2)}

\* operands of the functions of one array: more values, and 2^63
UnaryVals == CompVals(MaxComp + 1) \cup {Pow2(Width - 1)}

Vec(D, S) == [1..D -> S]

\* integers at most MaxDelta away from a power of two, from 0 or from 2^64
ScalarVals ==
  UNION { {UAdd(Pow2(k), U64(d)), USub(Pow2(k), U64(d))} :
            k \in 0..Width, d \in 0..MaxDelta }

\* divisors: never 0, which is undefined behaviour in ceil_division
DivVals ==
  {U64(j) : j \in 1..(MaxDelta + 3)}
    \cup {UAdd(Pow2(k), U64(d)) : k \in {Width \div 2, Width - 1}, d \in 0..MaxDelta}
    \cup {UMax}

DeviceIds == 0..MaxDevice

FlagNames == DOMAIN backend_interop_hip

Idle ==
  /\ trace = <<>> /\ v = <<>> /\ n = Zero
  /\ dev = NoDevice /\ native = NoNative /\ flag = NoFlag /\ cap = FALSE

(***************************************************************************)
(* Callers of static_array and of the embedding helpers.                   *)
(***************************************************************************)
InitArray ==
  /\ Idle
  /\ Dim \in Dims
  /\ y = One
  /\ \/ /\ fn \in {"embed_in_id3", "embed_in_range3", "size"}
        /\ a \in Vec(Dim, UnaryVals)
        /\ b = static_array(Dim, Zero)
        /\ x = Zero
     \/ /\ fn \in {"operator+", "operator-"}
        /\ a \in Vec(Dim, CompVals(MaxComp))
        /\ b \in Vec(Dim, CompVals(MaxComp))
        /\ x = Zero
     \/ /\ fn = "static_array"
        /\ a = static_array(Dim, Zero)
        /\ b = static_array(Dim, Zero)
        /\ x \in ScalarVals

Returns(f) == trace' = Append(trace, f)

Construct ==
  /\ trace = <<>> /\ fn = "static_array"
  /\ v' = static_array(Dim, x)
  /\ Returns("static_array")
  /\ UNCHANGED <<fn, Dim, a, b, x, y, n, dev, native, flag, cap>>

EmbedInId3 ==
  /\ trace = <<>> /\ fn = "embed_in_id3"
  /\ v' = embed_in_id3(Dim, a)
  /\ Returns("embed_in_id3")
  /\ UNCHANGED <<fn, Dim, a, b, x, y, n, dev, native, flag, cap>>

EmbedInRange3 ==
  /\ trace = <<>> /\ fn = "embed_in_range3"
  /\ v' = embed_in_range3(Dim, a)
  /\ Returns("embed_in_range3")
  /\ UNCHANGED <<fn, Dim, a, b, x, y, n, dev, native, flag, cap>>

\* extract_from_id3<Dim> of a three-dimensional value just embedded
ExtractFromId3 ==
  /\ trace \in {<<"embed_in_id3">>, <<"embed_in_range3">>}
  /\ v' = extract_from_id3(Dim, v)
  /\ Returns("extract_from_id3")
  /\ UNCHANGED <<fn, Dim, a, b, x, y, n, dev, native, flag, cap>>

ExtractFromRange3 ==
  /\ trace \in {<<"embed_in_id3">>, <<"embed_in_range3">>}
  /\ v' = extract_from_range3(Dim, v)
  /\ Returns("extract_from_range3")
  /\ UNCHANGED <<fn, Dim, a, b, x, y, n, dev, native, flag, cap>>

Plus ==
  /\ trace = <<>> /\ fn = "operator+"
  /\ v' = operator_plus(a, b)
  /\ Returns("operator+")
  /\ UNCHANGED <<fn, Dim, a, b, x, y, n, dev, native, flag, cap>>

\* a - b, or (a + b) - b after operator+
Minus ==
  /\ IF trace = <<>> THEN fn = "operator-" ELSE trace = <<"operator+">>
  /\ v' = operator_minus(IF trace = <<>> THEN a ELSE v, b)
  /\ Returns("operator-")
  /\ UNCHANGED <<fn, Dim, a, b, x, y, n, dev, native, flag, cap>>

\* a.size(), or size() of the array just constructed or embedded
Size ==
  /\ IF trace = <<>> THEN fn = "size"
     ELSE trace \in {<<"static_array">>, <<"embed_in_id3">>, <<"embed_in_range3">>}
  /\ n' = size(IF trace = <<>> THEN a ELSE v)
  /\ Returns("size")
  /\ UNCHANGED <<fn, Dim, a, b, x, y, v, dev, native, flag, cap>>

NextArray ==
  \/ Construct
  \/ EmbedInId3
  \/ EmbedInRange3
  \/ ExtractFromId3
  \/ ExtractFromRange3
  \/ Plus
  \/ Minus
  \/ Size

SpecArray == InitArray /\ [][NextArray]_vars

(***************************************************************************)
(* Callers of the integer helpers.                                         *)
(***************************************************************************)
InitInt ==
  /\ Idle
  /\ Dim = 1 /\ a = static_array(1, Zero) /\ b = static_array(1, Zero)
  /\ x \in ScalarVals
  /\ \/ /\ fn \in {"next_power_of_2", "power_of_2_ceil"}
        /\ y = One
     \/ /\ fn \in {"ceil_division", "next_multiple_of"}
        /\ y \in DivVals

NextPowerOf2 ==
  /\ trace = <<>> /\ fn = "next_power_of_2"
  /\ n' = next_power_of_2(x)
  /\ Returns("next_power_of_2")
  /\ UNCHANGED <<fn, Dim, a, b, x, y, v, dev, native, flag, cap>>

PowerOf2Ceil ==
  /\ trace = <<>> /\ fn = "power_of_2_ceil"
  /\ n' = power_of_2_ceil(x)
  /\ Returns("power_of_2_ceil")
  /\ UNCHANGED <<fn, Dim, a, b, x, y, v, dev, native, flag, cap>>

CeilDivision ==
  /\ trace = <<>> /\ fn = "ceil_division"
  /\ y # Zero
  /\ n' = ceil_division(x, y)
  /\ Returns("ceil_division")
  /\ UNCHANGED <<fn, Dim, a, b, x, y, v, dev, native, flag, cap>>

NextMultipleOf ==
  /\ trace = <<>> /\ fn = "next_multiple_of"
  /\ y # Zero
  /\ n' = next_multiple_of(x, y)
  /\ Returns("next_multiple_of")
  /\ UNCHANGED <<fn, Dim, a, b, x, y, v, dev, native, flag, cap>>

NextInt ==
  \/ NextPowerOf2
  \/ PowerOf2Ceil
  \/ CeilDivision
  \/ NextMultipleOf

SpecInt == InitInt /\ [][NextInt]_vars

(***************************************************************************)
(* Users of backend_interop<backend::hip>.                                 *)
(***************************************************************************)
InitInterop ==
  /\ Idle
  /\ fn = "backend_interop"
  /\ Dim = 1 /\ a = static_array(1, Zero) /\ b = static_array(1, Zero)
  /\ x = Zero /\ y = One

MakeSyclDevice ==
  /\ \E device_id \in DeviceIds : dev' = make_sycl_device(device_id)
  /\ UNCHANGED <<fn, Dim, a, b, x, y, trace, v, n, native, flag, cap>>

GetNativeDevice ==
  /\ dev # NoDevice
  /\ native' = get_native_device(dev)
  /\ UNCHANGED <<fn, Dim, a, b, x, y, trace, v, n, dev, flag, cap>>

\* reading one of the static constexpr bool members
ReadFlag ==
  /\ \E f \in FlagNames :
       /\ flag' = f
       /\ cap' = backend_interop_hip[f]
  /\ UNCHANGED <<fn, Dim, a, b, x, y, trace, v, n, dev, native>>

NextInterop ==
  \/ MakeSyclDevice
  \/ GetNativeDevice
  \/ ReadFlag

SpecInterop == InitInterop /\ [][NextInterop]_vars

(***************************************************************************)
(* Properties.                                                             *)
(***************************************************************************)
\* r is a power of two representable in 64 bits
IsPow2(r) == \E k \in 0..(Width - 1) : r = Pow2(k)

\* r is the smallest power of two with r >= p  (r/2 < p, or r = 1)
IsCeilPow2(r, p) ==
  /\ IsPow2(r)
  /\ NLeq(p, r)
  /\ (r = One \/ NLt(r, NAdd(p, p)))

\* r is the smallest power of two with r > p  (r/2 <= p, or r = 1)
IsNextPow2(r, p) ==
  /\ IsPow2(r)
  /\ NLt(p, r)
  /\ (r = One \/ NLeq(r, NAdd(p, p)))

\* C1: embedding a Dim-dimensional id (range) in three dimensions and
\* extracting Dim dimensions again gives back the original value.
C1_RoundTrip ==
  (\/ trace = <<"embed_in_id3", "extract_from_id3">>
   \/ trace = <<"embed_in_range3", "extract_from_range3">>)
    => operator_eq(v, a)

C1_Witness ==
  /\ trace = <<"embed_in_id3", "extract_from_id3">>
  /\ Dim = 2
  /\ a[1] # a[2]
  /\ a[1] # Zero

\* C2: the size() of embed_in_range3(r) is the size() of r, also when a
\* component is 0 and when the product wraps around 64 bits.
C2_EmbedKeepsSize ==
  trace = <<"embed_in_range3", "size">> => n = size(a)

C2_Witness ==
  /\ trace = <<"embed_in_range3", "size">>
  /\ Dim = 2
  /\ a = <<Pow2(Width \div 2), Pow2(Width \div 2)>>
  /\ n = Zero

\* C3: embed_in_id3(idx) holds the components of idx, in order, in its
\* trailing Dim positions and 0 in each of its 3-Dim leading positions.
C3_EmbedIdLayout ==
  trace = <<"embed_in_id3">> =>
    /\ Len(v) = 3
    /\ \A k \in 1..Dim : v[3 - Dim + k] = a[k]
    /\ \A k \in 1..(3 - Dim) : v[k] = Zero

C3_Witness ==
  /\ trace = <<"embed_in_id3">>
  /\ Dim = 1
  /\ a = <<UMax>>
  /\ v = <<Zero, Zero, UMax>>

\* C4 as stated: for every a, power_of_2_ceil(a) is the smallest power of
\* two >= a, except that power_of_2_ceil(0) is 0.
C4_PowerOf2CeilEveryInput ==
  trace = <<"power_of_2_ceil">> =>
    IF x = Zero THEN n = Zero ELSE IsCeilPow2(n, x)

\* C4 as amended: for 1 <= a <= 2^63, power_of_2_ceil(a) is the smallest
\* power of two >= a (a itself when a is a power of two); it is 0 for a = 0
\* and for a > 2^63, where no such power fits in 64 bits.
C4_PowerOf2Ceil ==
  trace = <<"power_of_2_ceil">> =>
    /\ IF x = Zero \/ NLt(Pow2(Width - 1), x)
       THEN n = Zero
       ELSE IsCeilPow2(n, x)
    /\ IsPow2(x) => n = x

C4_Witness ==
  /\ trace = <<"power_of_2_ceil">>
  /\ x = U64(5)
  /\ n = U64(8)

\* C5: next_power_of_2(a) is the smallest power of two > a when a < 2^63,
\* and 0 exactly when a >= 2^63.
C5_NextPowerOf2 ==
  trace = <<"next_power_of_2">> =>
    IF NLt(x, Pow2(Width - 1)) THEN IsNextPow2(n, x) ELSE n = Zero

C5_Witness ==
  /\ trace = <<"next_power_of_2">>
  /\ x = Pow2(Width - 1)
  /\ n = Zero

\* C6: for b > 0, ceil_division(a, b) is the smallest q with q*b >= a,
\* that is a <= q*b < a + b.
C6_CeilDivision ==
  trace = <<"ceil_division">> =>
    /\ NLeq(x, NMul(n, y))
    /\ NLt(NMul(n, y), NAdd(x, y))

\* C7: for b > 0, next_multiple_of(a, b) is the smallest multiple of b
\* that is >= a: a multiple m of b with a <= m < a + b.
C7_NextMultipleOf ==
  trace = <<"next_multiple_of">> =>
    /\ NEq(NMul(UDiv(n, y), y), n)
    /\ NLeq(x, n)
    /\ NLt(n, NAdd(x, y))

\* C8: a + b == b + a and (a + b) - b == a, also when sums wrap around.
C8_PlusMinus ==
  /\ trace = <<"operator+">> => operator_eq(v, operator_plus(b, a))
  /\ trace = <<"operator+", "operator-">> => operator_eq(v, a)

C8_Witness ==
  /\ trace = <<"operator+", "operator-">>
  /\ Dim = 3
  /\ a[1] = UMax
  /\ b[1] = UMax
  /\ a[3] # b[3]

\* C9 as stated: static_array<Dim>(s) has every component equal to s and
\* its size() is s^Dim.
C9_BroadcastSizeIsPower ==
  /\ trace = <<"static_array">> =>
       (Len(v) = Dim /\ \A i \in 1..Dim : v[i] = x)
  /\ trace = <<"static_array", "size">> => NEq(n, NPow(x, Dim))

\* C9 as amended: static_array<Dim>(s) has every component equal to s and
\* its size() is s^Dim modulo 2^64.
C9_BroadcastSize ==
  /\ trace = <<"static_array">> =>
       (Len(v) = Dim /\ \A i \in 1..Dim : v[i] = x)
  /\ trace = <<"static_array", "size">> => n = Wrap(NPow(x, Dim))

C9_Witness ==
  /\ trace = <<"static_array", "size">>
  /\ Dim = 3
  /\ x = U64(3)
  /\ n = U64(27)

\* C10 as stated: the only capability flags that are true are
\* can_extract_native_device and can_extract_native_mem.
C10_OnlyExtractDeviceAndMem ==
  flag # NoFlag =>
    (cap <=> flag \in {"can_extract_native_device", "can_extract_native_mem"})

\* C10 as amended: the only capability flags that are true are
\* can_make_device, can_extract_native_device and can_extract_native_mem.
C10_TrueFlags ==
  flag # NoFlag =>
    (cap <=> flag \in {"can_make_device", "can_extract_native_device",
                       "can_extract_native_mem"})

C10_Witness ==
  /\ flag = "can_make_device"
  /\ cap = TRUE
  /\ dev = make_sycl_device(0)

====
